---- MODULE Spec2Model ----
(***************************************************************************)
(* Model of local_app.py (HireTrack job tracker): URL cleaning, job        *)
(* identity, the source parsers, the two generative scoring calls, the     *)
(* ranking function and the Flask handlers that read and write the jobs    *)
(* table.                                                                  *)
(*                                                                         *)
(* Text is modelled by TLA+ strings handled character by character, so     *)
(* that parsing and re-encoding a URL is computed, not assumed.  Inputs    *)
(* are ASCII; the percent-code table below covers the reserved characters  *)
(* that occur in them.                                                     *)
(***************************************************************************)
EXTENDS Integers, Sequences, FiniteSets, TLC

VARIABLES
    store,      \* rows of the jobs table (a set of records)
    resumes,    \* TRUE iff load_resumes() returns a non-empty text
    now,        \* datetime.now(), in whole days
    last,       \* what the last request did and returned
    steps,      \* number of requests served so far
    call,       \* a single call of a pure function: its argument and result
    inflight    \* the api_scan requests being served by concurrent threads

vars == <<store, resumes, now, last, steps, call, inflight>>

\* ------------------------------------------------------------------ text

Min(S) == CHOOSE i \in S : \A j \in S : i <= j

Max(S) == CHOOSE i \in S : \A j \in S : i >= j

\* The characters a..b of s (1-based, inclusive), clipped to s as a Python
\* slice is.
Slice(s, a, b) ==
    LET lo == IF a < 1 THEN 1 ELSE a
        hi == IF b > Len(s) THEN Len(s) ELSE b
    IN  IF lo > hi THEN "" ELSE SubSeq(s, lo, hi)

\* s[:n]
Prefix(s, n) == IF Len(s) <= n THEN s ELSE Slice(s, 1, n)

Occurrences(s, sub) ==
    {i \in 1..(Len(s) - Len(sub) + 1) : SubSeq(s, i, i + Len(sub) - 1) = sub}

\* 1-based str.find: 0 when sub does not occur.
Find(s, sub) == IF Occurrences(s, sub) = {} THEN 0 ELSE Min(Occurrences(s, sub))

RFind(s, sub) == IF Occurrences(s, sub) = {} THEN 0 ELSE Max(Occurrences(s, sub))

\* sub in s
Contains(s, sub) == Occurrences(s, sub) # {}

\* s.split(sep)[0]
Before(s, sep) == IF Find(s, sep) = 0 THEN s ELSE Slice(s, 1, Find(s, sep) - 1)

\* s.split(sep, 1)[1], for s that contains sep
After(s, sep) == Slice(s, Find(s, sep) + Len(sep), Len(s))

\* s.split(sep)[-1]
AfterLast(s, sep) ==
    IF RFind(s, sep) = 0 THEN s ELSE Slice(s, RFind(s, sep) + Len(sep), Len(s))

RECURSIVE Split(_, _)
\* s.split(sep)
Split(s, sep) ==
    IF Find(s, sep) = 0 THEN <<s>>
    ELSE <<Before(s, sep)>> \o Split(After(s, sep), sep)

RECURSIVE Join(_, _)
\* sep.join(parts)
Join(parts, sep) ==
    IF parts = <<>> THEN ""
    ELSE IF Len(parts) = 1 THEN parts[1]
    ELSE parts[1] \o sep \o Join(Tail(parts), sep)

UpperLetters == "ABCDEFGHIJKLMNOPQRSTUVWXYZ"

LowerLetters == "abcdefghijklmnopqrstuvwxyz"

Digits == "0123456789"

LowerChar(c) ==
    IF Contains(UpperLetters, c)
    THEN Slice(LowerLetters, Find(UpperLetters, c), Find(UpperLetters, c))
    ELSE c

RECURSIVE Lower(_)
\* str.lower(), character by character; the text is halved so that the
\* evaluation stays shallow for long texts.
Lower(s) ==
    IF s = "" THEN ""
    ELSE IF Len(s) = 1 THEN LowerChar(s)
    ELSE Lower(Slice(s, 1, Len(s) \div 2)) \o Lower(Slice(s, Len(s) \div 2 + 1, Len(s)))

\* str.strip() for the blanks of the inputs
RECURSIVE Strip(_)
Strip(s) ==
    IF s = "" THEN ""
    ELSE IF Slice(s, 1, 1) = " " THEN Strip(Slice(s, 2, Len(s)))
    ELSE IF Slice(s, Len(s), Len(s)) = " " THEN Strip(Slice(s, 1, Len(s) - 1))
    ELSE s

\* ------------------------------------------------- urllib.parse, as used

\* Percent codes of the reserved characters of the inputs: <<hex, char>>.
PctCodes ==
    << <<"20", " ">>, <<"23", "#">>, <<"25", "%">>, <<"26", "&">>,
       <<"2B", "+">>, <<"2F", "/">>, <<"3A", ":">>, <<"3B", ";">>,
       <<"3D", "=">>, <<"3F", "?">> >>

HexOf(c) == LET i == CHOOSE i \in 1..Len(PctCodes) : PctCodes[i][2] = c
            IN  PctCodes[i][1]

IsCoded(c) == \E i \in 1..Len(PctCodes) : PctCodes[i][2] = c

IsHexCode(h) == \E i \in 1..Len(PctCodes) : PctCodes[i][1] = h

CharOf(h) == LET i == CHOOSE i \in 1..Len(PctCodes) : PctCodes[i][1] = h
             IN  PctCodes[i][2]

UpperHexChar(c) ==
    IF Contains("abcdef", c) THEN Slice("ABCDEF", Find("abcdef", c), Find("abcdef", c))
    ELSE c

\* The two hex digits of a percent code, in upper case.
UpperHex(h) == UpperHexChar(Slice(h, 1, 1)) \o UpperHexChar(Slice(h, 2, 2))

RECURSIVE unquote(_)
\* urllib.parse.unquote: %XX becomes its character, anything else stays.
unquote(s) ==
    IF s = "" THEN ""
    ELSE IF /\ Slice(s, 1, 1) = "%"
            /\ Len(s) >= 3
            /\ IsHexCode(UpperHex(Slice(s, 2, 3)))
         THEN CharOf(UpperHex(Slice(s, 2, 3))) \o unquote(Slice(s, 4, Len(s)))
    ELSE Slice(s, 1, 1) \o unquote(Slice(s, 2, Len(s)))

RECURSIVE PlusToSpace(_)
\* s.replace('+', ' ')
PlusToSpace(s) ==
    IF s = "" THEN ""
    ELSE (IF Slice(s, 1, 1) = "+" THEN " " ELSE Slice(s, 1, 1))
         \o PlusToSpace(Slice(s, 2, Len(s)))

AlwaysSafe == UpperLetters \o LowerLetters \o Digits \o "_.-~"

QuotePlusChar(c) ==
    IF Contains(AlwaysSafe, c) THEN c
    ELSE IF c = " " THEN "+"
    ELSE IF IsCoded(c) THEN "%" \o HexOf(c)
    ELSE c

RECURSIVE quote_plus(_)
\* urllib.parse.quote_plus
quote_plus(s) ==
    IF s = "" THEN "" ELSE QuotePlusChar(Slice(s, 1, 1)) \o quote_plus(Slice(s, 2, Len(s)))

RECURSIVE ParsePairs(_)
\* urllib.parse.parse_qsl on the '&'-separated fields: a field without '=' or
\* with an empty value is dropped (keep_blank_values is False).
ParsePairs(fields) ==
    IF fields = <<>> THEN <<>>
    ELSE LET f == Head(fields)
             rest == ParsePairs(Tail(fields))
         IN  IF f = "" \/ ~Contains(f, "=") THEN rest
             ELSE IF After(f, "=") = "" THEN rest
             ELSE << <<unquote(PlusToSpace(Before(f, "="))),
                       unquote(PlusToSpace(After(f, "=")))>> >> \o rest

HasKey(d, k) == \E i \in 1..Len(d) : d[i][1] = k

\* d[k] of a dict kept as a sequence of <<key, values>> in insertion order
Get(d, k) == LET i == CHOOSE i \in 1..Len(d) : d[i][1] = k IN d[i][2]

RECURSIVE GroupPairs(_, _)
\* parse_qs: each pair appended to the list of its key; a new key is
\* inserted at the end of the dict.
GroupPairs(d, pairs) ==
    IF pairs = <<>> THEN d
    ELSE LET k == Head(pairs)[1]
             v == Head(pairs)[2]
         IN  IF HasKey(d, k)
             THEN GroupPairs([i \in 1..Len(d) |->
                                 IF d[i][1] = k THEN <<k, Append(d[i][2], v)>> ELSE d[i]],
                             Tail(pairs))
             ELSE GroupPairs(Append(d, <<k, <<v>> >>), Tail(pairs))

\* urllib.parse.parse_qs(query)
parse_qs(query) == GroupPairs(<<>>, ParsePairs(Split(query, "&")))

RECURSIVE EncodeValues(_, _)
EncodeValues(k, vs) ==
    IF vs = <<>> THEN <<>>
    ELSE <<quote_plus(k) \o "=" \o quote_plus(Head(vs))>> \o EncodeValues(k, Tail(vs))

RECURSIVE EncodeItems(_)
EncodeItems(d) ==
    IF d = <<>> THEN <<>>
    ELSE EncodeValues(Head(d)[1], Head(d)[2]) \o EncodeItems(Tail(d))

\* urllib.parse.urlencode(d, doseq=True)
urlencode(d) == Join(EncodeItems(d), "&")

SchemeChars == UpperLetters \o LowerLetters \o Digits \o "+-."

IsScheme(s) ==
    /\ s # ""
    /\ Contains(UpperLetters \o LowerLetters, Slice(s, 1, 1))
    /\ \A i \in 1..Len(s) : Contains(SchemeChars, Slice(s, i, i))

\* End of the netloc that starts at position 3 of rest: the first of / ? #.
NetlocEnd(rest) ==
    LET stops == {i \in 3..Len(rest) : Slice(rest, i, i) \in {"/", "?", "#"}}
    IN  IF stops = {} THEN Len(rest) ELSE Min(stops) - 1

\* urllib.parse.uses_netloc and uses_params, cut to the schemes of the inputs.
UsesNetloc == {"", "http", "https", "ftp"}

UsesParams == {"", "http", "https", "ftp"}

\* urlparse, last step: the params are split from the last path segment.
SplitParams(scheme, netloc, url, query, fragment) ==
    IF scheme \in UsesParams /\ Contains(AfterLast(url, "/"), ";")
    THEN [scheme |-> scheme, netloc |-> netloc,
          path |-> Slice(url, 1, RFind(url, "/") + Find(AfterLast(url, "/"), ";") - 1),
          params |-> After(AfterLast(url, "/"), ";"),
          query |-> query, fragment |-> fragment]
    ELSE [scheme |-> scheme, netloc |-> netloc, path |-> url, params |-> "",
          query |-> query, fragment |-> fragment]

\* urlsplit after the netloc: the fragment is cut at the first '#', then the
\* query at the first '?'.
SplitQuery(scheme, netloc, url, fragment) ==
    SplitParams(scheme, netloc, Before(url, "?"),
                IF Contains(url, "?") THEN After(url, "?") ELSE "", fragment)

SplitFragment(scheme, netloc, rest) ==
    SplitQuery(scheme, netloc, Before(rest, "#"),
               IF Contains(rest, "#") THEN After(rest, "#") ELSE "")

\* urlsplit after the scheme: a netloc follows a leading "//".
SplitNetloc(scheme, rest) ==
    SplitFragment(scheme,
                  IF Slice(rest, 1, 2) = "//" THEN Slice(rest, 3, NetlocEnd(rest)) ELSE "",
                  IF Slice(rest, 1, 2) = "//" THEN Slice(rest, NetlocEnd(rest) + 1, Len(rest))
                  ELSE rest)

\* The position of the ':' that ends the scheme of url, 0 when url has none.
SchemeEnd(url) ==
    IF Find(url, ":") > 1 /\ IsScheme(Slice(url, 1, Find(url, ":") - 1))
    THEN Find(url, ":") ELSE 0

\* urlsplit once the scheme is found: it is lowercased and cut off.
SplitScheme(url, end) ==
    SplitNetloc(Lower(Slice(url, 1, end - 1)), Slice(url, end + 1, Len(url)))

\* urllib.parse.urlparse(url)
urlparse(url) == SplitScheme(url, SchemeEnd(url))

\* urllib.parse.urlunparse((scheme, netloc, path, '', query, ''))
urlunparse(scheme, netloc, path, query) ==
    LET p1 == IF netloc # "" \/ (scheme # "" /\ scheme \in UsesNetloc /\ Slice(path, 1, 2) # "//")
              THEN "//" \o netloc \o
                   (IF path # "" /\ Slice(path, 1, 1) # "/" THEN "/" \o path ELSE path)
              ELSE path
        p2 == IF scheme # "" THEN scheme \o ":" \o p1 ELSE p1
    IN  IF query # "" THEN p2 \o "?" \o query ELSE p2

\* ------------------------------------------------------------ URL cleaning

TrackingParams ==
    {"trackingId", "refId", "lipi", "midToken", "midSig", "trk", "trkEmail", "eid",
     "otpToken", "utm_source", "utm_medium", "utm_campaign", "ref", "source"}

\* The dict comprehension of clean_job_url: the entries whose key is kept.
RECURSIVE CleanedParams(_)
CleanedParams(d) ==
    IF d = <<>> THEN <<>>
    ELSE IF Head(d)[1] \in TrackingParams THEN CleanedParams(Tail(d))
    ELSE <<Head(d)>> \o CleanedParams(Tail(d))

\* params.get(key, [''])[0]
FirstValue(d, k) == IF HasKey(d, k) THEN Get(d, k)[1] ELSE ""

\* The job-board branches of clean_job_url: the canonical URL they return, or
\* matched = FALSE when control falls through to the tracking-parameter code.
\* params is parse_qs(parsed.query).
JobBoardUrl(parsed, params) ==
    IF Contains(parsed.netloc, "linkedin.com")
    THEN IF Contains(parsed.path, "/jobs/view/")
         THEN [matched |-> TRUE,
               url |-> "https://www.linkedin.com/jobs/view/" \o
                       Before(Before(AfterLast(parsed.path, "/jobs/view/"), "?"), "/")]
         ELSE [matched |-> Contains(parsed.query, "currentJobId=")
                           /\ FirstValue(params, "currentJobId") # "",
               url |-> "https://www.linkedin.com/jobs/view/" \o
                       FirstValue(params, "currentJobId")]
    ELSE IF Contains(parsed.netloc, "indeed.com")
    THEN [matched |-> HasKey(params, "jk") \/ HasKey(params, "vjk"),
          url |-> "https://www.indeed.com/viewjob?jk=" \o
                  (IF HasKey(params, "jk") THEN FirstValue(params, "jk")
                   ELSE FirstValue(params, "vjk"))]
    ELSE [matched |-> FALSE, url |-> ""]

\* The end of the tracking-parameter branch: cleaned is the filtered dict.
StripCleaned(parsed, cleaned) ==
    urlunparse(parsed.scheme, parsed.netloc, parsed.path,
               IF cleaned # <<>> THEN urlencode(cleaned) ELSE "")

\* The tracking-parameter branch of clean_job_url.
StripTracking(url, parsed, params) ==
    IF parsed.query # "" THEN StripCleaned(parsed, CleanedParams(params)) ELSE url

\* clean_job_url after the job-board branches: board is what they decided.
CleanChoice(url, parsed, params, board) ==
    IF board.matched THEN board.url ELSE StripTracking(url, parsed, params)

\* clean_job_url once parse_qs(parsed.query) is known.
CleanParams(url, parsed, params) ==
    CleanChoice(url, parsed, params, JobBoardUrl(parsed, params))

\* clean_job_url after urlparse(url).
CleanParsed(url, parsed) == CleanParams(url, parsed, parse_qs(parsed.query))

clean_job_url(url) == IF url = "" THEN url ELSE CleanParsed(url, urlparse(url))

\* ---------------------------------------------------------------- identity

\* hashlib.sha256(content).hexdigest()[:16], taken as collision-free: two
\* digests are equal exactly when the hashed contents are.
Sha256Hex16(content) == "sha256:" \o content

generate_job_id(url, title, company) ==
    Sha256Hex16(Lower(clean_job_url(url) \o ":" \o title \o ":" \o company))

\* ------------------------------------------------------------------ values

\* SQL NULL / Python None in a text column.
NULL == "<NULL>"

\* A nullable non-text value: <<>> is NULL, <<v>> is v.
None == <<>>

Some(v) == <<v>>

TitleCap == 200

CompanyCap == 100

LocationCap == 100

EmailRawTextCap == 1000

FeedDescriptionCap == 2000

\* ---------------------------------------------------------- source parsers
\* An email body is the sequence of its <a> elements in document order.  Each
\* is [href, title, has_parent, nodes]: title is the text BeautifulSoup
\* returns for the title element (or the link), nodes the stripped text
\* nodes of the enclosing td/div/tr.

\* Stands for the middle dot (U+00B7) that separates the parts of a
\* LinkedIn digest line.
MiddleDot == "|"

\* re.compile(r'linkedin\.com.*jobs') found in href
IsLinkedInJobLink(link) ==
    \E i \in Occurrences(link.href, "linkedin.com") :
        \E j \in Occurrences(link.href, "jobs") : j >= i + Len("linkedin.com")

\* re.compile(r'indeed\.com.*(jk=|vjk=)') found in href
IsIndeedJobLink(link) ==
    \E i \in Occurrences(link.href, "indeed.com") :
        \E j \in Occurrences(link.href, "jk=") : j >= i + Len("indeed.com")

\* The dict both email parsers append for a link.
EmailJob(source, link, url, email_date, raw_text, company, location) ==
    [job_id |-> generate_job_id(url, link.title, company),
     title |-> Prefix(link.title, TitleCap), company |-> company,
     location |-> location, url |-> url, source |-> source,
     raw_text |-> Prefix(raw_text, EmailRawTextCap), description |-> NULL,
     created_at |-> Some(email_date), email_date |-> Some(email_date)]

\* parse_linkedin_jobs for one link: parts is raw_text.split(middle dot).
LinkedInParts(link, url, email_date, raw_text, parts) ==
    EmailJob("linkedin", link, url, email_date, raw_text,
             IF link.has_parent /\ Len(parts) > 1
             THEN Prefix(Strip(parts[2]), CompanyCap) ELSE "",
             IF link.has_parent /\ Len(parts) > 2
             THEN Prefix(Strip(parts[3]), LocationCap) ELSE "")

LinkedInText(link, url, email_date, raw_text) ==
    LinkedInParts(link, url, email_date, raw_text, Split(raw_text, MiddleDot))

LinkedInJob(link, url, email_date) ==
    LinkedInText(link, url, email_date,
                 IF link.has_parent THEN Join(link.nodes, " ") ELSE link.title)

\* parse_indeed_jobs for one link: the lines are the text nodes of the parent.
IndeedJob(link, url, email_date) ==
    EmailJob("indeed", link, url, email_date,
             IF link.has_parent THEN Join(link.nodes, " ") ELSE link.title,
             IF link.has_parent /\ Len(link.nodes) > 1
             THEN Prefix(link.nodes[2], CompanyCap) ELSE "",
             IF link.has_parent /\ Len(link.nodes) > 2
             THEN Prefix(link.nodes[3], LocationCap) ELSE "")

\* The dict the parser of source appends for a link.
MakeJob(source, link, url, email_date) ==
    IF source = "linkedin" THEN LinkedInJob(link, url, email_date)
    ELSE IndeedJob(link, url, email_date)

RECURSIVE ParseLinks(_, _, _, _, _)
\* One turn of the loop of parse_linkedin_jobs and parse_indeed_jobs, url
\* being the cleaned href of the first link: a URL is marked seen before its
\* title is looked at.
ParseLink(source, links, email_date, seen, jobs, url) ==
    ParseLinks(source, Tail(links), email_date,
               IF url = "" THEN seen ELSE seen \cup {url},
               IF url = "" \/ url \in seen \/ Len(Head(links).title) < 3 THEN jobs
               ELSE Append(jobs, MakeJob(source, Head(links), url, email_date)))

ParseLinks(source, links, email_date, seen, jobs) ==
    IF links = <<>> THEN jobs
    ELSE ParseLink(source, links, email_date, seen, jobs,
                   clean_job_url(Head(links).href))

parse_linkedin_jobs(html, email_date) ==
    ParseLinks("linkedin", SelectSeq(html, IsLinkedInJobLink), email_date, {}, <<>>)

parse_indeed_jobs(html, email_date) ==
    ParseLinks("indeed", SelectSeq(html, IsIndeedJobLink), email_date, {}, <<>>)

\* A feed item is [title, link, description, pubDate].  title and link are
\* [present, children, text]: whether item.find() returns an element, whether
\* that element has child elements (an Element without children is false in a
\* boolean test) and its .text.  description is the element's text or NULL.
\* pubDate is [kind, day], kind one of "none" (no element or no text), "bad"
\* (parsedate_to_datetime raises), "aware" (a date with a UTC offset, whose
\* comparison with the naive cutoff raises TypeError) and "naive".
ElementIsTrue(e) == e.present /\ e.children

DaysBack == 7

\* The dict fetch_wwr_jobs appends for an item.
WwrRecord(title, url, company, job_title, description, pub_date) ==
    [job_id |-> generate_job_id(url, job_title, company),
     title |-> Prefix(job_title, TitleCap), company |-> Prefix(company, CompanyCap),
     location |-> "Remote", url |-> url, source |-> "weworkremotely",
     raw_text |-> IF description # "" THEN description ELSE title,
     description |-> description,
     created_at |-> Some(pub_date), email_date |-> Some(pub_date)]

\* "Company: Job Title" is split at the first colon; a missing or unreadable
\* date, and an aware one, leave pub_date at datetime.now().
WwrJob(item, today) ==
    WwrRecord(item.title.text, clean_job_url(item.link.text),
              IF Contains(item.title.text, ":") THEN Strip(Before(item.title.text, ":"))
              ELSE "",
              IF Contains(item.title.text, ":") THEN Strip(After(item.title.text, ":"))
              ELSE item.title.text,
              IF item.description = NULL THEN ""
              ELSE Prefix(item.description, FeedDescriptionCap),
              IF item.pubDate.kind = "naive" THEN item.pubDate.day ELSE today)

\* Whether the loop of fetch_wwr_jobs skips the item.
Skipped(item, today) ==
    \/ ~ElementIsTrue(item.title)
    \/ ~ElementIsTrue(item.link)
    \/ item.pubDate.kind = "naive" /\ item.pubDate.day < today - DaysBack

RECURSIVE FeedItems(_, _)
\* The loop over the items of one feed.
FeedItems(items, today) ==
    IF items = <<>> THEN <<>>
    ELSE (IF Skipped(Head(items), today) THEN <<>> ELSE <<WwrJob(Head(items), today)>>)
         \o FeedItems(Tail(items), today)

RECURSIVE fetch_wwr_jobs(_, _)
\* feeds: one fetch per entry of WWR_FEEDS, [ok, items]; a fetch or XML parse
\* that raises (ok = FALSE) is caught and the feed contributes nothing.
fetch_wwr_jobs(feeds, today) ==
    IF feeds = <<>> THEN <<>>
    ELSE (IF Head(feeds).ok THEN FeedItems(Head(feeds).items, today) ELSE <<>>)
         \o fetch_wwr_jobs(Tail(feeds), today)

RECURSIVE ParseMessages(_, _)
ParseMessages(isLinkedIn, msgs) ==
    IF msgs = <<>> THEN <<>>
    ELSE (IF isLinkedIn THEN parse_linkedin_jobs(Head(msgs).html, Head(msgs).date)
          ELSE parse_indeed_jobs(Head(msgs).html, Head(msgs).date))
         \o ParseMessages(isLinkedIn, Tail(msgs))

RECURSIVE ScanQueries(_, _)
\* The loop over the four queries of scan_emails (two LinkedIn senders, then
\* two Indeed senders).  A query is [msgs, fails_at]: the messages it lists
\* and the 1-based index of the message whose fetch raises (0: none; an
\* index of 1 also stands for a failing list call).  The messages before the
\* failing one have already been parsed and stay in all_jobs.
ScanQueries(queries, n) ==
    IF queries = <<>> THEN <<>>
    ELSE LET q    == Head(queries)
             done == IF q.fails_at = 0 THEN q.msgs
                     ELSE SubSeq(q.msgs, 1, q.fails_at - 1)
         IN  ParseMessages(n <= 2, done) \o ScanQueries(Tail(queries), n + 1)

\* scan_emails(): mail is [service_ok, queries]; get_gmail_service() is called
\* outside the try block, so its exception leaves the function.
scan_emails(mail) ==
    IF mail.service_ok THEN [raised |-> FALSE, jobs |-> ScanQueries(mail.queries, 1)]
    ELSE [raised |-> TRUE, jobs |-> <<>>]

\* ------------------------------------------------------ generative scoring
\* A generative call is settled by what comes back: kind "raises" (the API
\* call raises), "no_json" (the text holds no {...}), "bad_json" (json.loads
\* raises on the match) or "object" (a JSON object, described by the keys the
\* caller reads).  Python values are written "True", "False", "None"; a key
\* that is missing is "absent".

FilterFallback == [keep |-> "True", baseline_score |-> 30,
                   reason |-> "filter error - kept by default"]

ai_filter_and_score(resp) ==
    IF resp.kind = "object"
    THEN [keep |-> IF resp.keep = "absent" THEN "False" ELSE resp.keep,
          baseline_score |-> IF resp.baseline_score = None THEN 0
                             ELSE resp.baseline_score[1],
          reason |-> IF resp.filter_reason = "absent" THEN "unknown"
                     ELSE resp.filter_reason]
    ELSE FilterFallback

\* bool(v) of a Python value
Truthy(v) == v = "True"

\* analyze_job returns a dict; of it the model keeps the two keys api_analyze
\* reads and whether it is the dict built in the except clause.
analyze_job(resp) ==
    IF resp.kind = "object"
    THEN [qualification_score |-> resp.qualification_score,
          should_apply |-> resp.should_apply, error |-> FALSE]
    ELSE IF resp.kind = "no_json"
    THEN [qualification_score |-> None, should_apply |-> "absent", error |-> FALSE]
    ELSE [qualification_score |-> Some(0), should_apply |-> "False", error |-> TRUE]

\* generate_cover_letter: the text, or "Error: ..." when the call raises.
generate_cover_letter(resp) ==
    IF resp.kind = "raises" THEN "Error: generative call failed" ELSE resp.text

\* ----------------------------------------------------------------- ranking
\* calculate_weighted_score in ten-thousandths: the score is baseline * 0.7 +
\* recency * 0.3 with recency = max(0, 100 - days_old * 3.33).  date is the
\* nullable posting day; a NULL date makes fromisoformat raise, which the
\* bare except turns into recency 0.

\* max(0, 100 - (days_old * 3.33)), in ten-thousandths
RecencyScore(days_old) ==
    IF 1000000 - days_old * 33300 > 0 THEN 1000000 - days_old * 33300 ELSE 0

\* (baseline_score * 0.7) + (recency_score * 0.3), in ten-thousandths
Weighted(baseline_score, date, today) ==
    LET recency_score == IF date = None THEN 0 ELSE RecencyScore(today - date[1])
    IN  baseline_score * 7000 + (recency_score * 3) \div 10

\* The (baseline_score, days_old) at which the exact value lies halfway
\* between two hundredths and the double Python computes lies above it, so
\* that round(weighted, 2) goes up; at every other halfway value the double
\* lies below and the result goes down.  For baseline scores up to 102.
FloatRoundsUp ==
    {<<b, 5>> : b \in {12, 17, 22, 27, 32, 37, 42, 47, 52, 57, 62, 67, 72, 77, 82, 87}}
    \cup {<<b, 15>> : b \in {5, 10, 15, 20, 25, 30, 35, 40, 50, 55, 60, 65, 70, 75, 80,
                            95, 100}}
    \cup {<<b, 25>> : b \in {41, 89, 94, 95, 99, 100}}

\* round(x, 2) in hundredths, x in ten-thousandths; up tells where a halfway
\* value goes.
Round2(x, up) ==
    IF x % 100 < 50 THEN x \div 100
    ELSE IF x % 100 > 50 THEN x \div 100 + 1
    ELSE IF up THEN x \div 100 + 1
    ELSE x \div 100

\* calculate_weighted_score, in hundredths.
calculate_weighted_score(baseline_score, date, today) ==
    Round2(Weighted(baseline_score, date, today),
           date # None /\ <<baseline_score, today - date[1]>> \in FloatRoundsUp)

\* ---------------------------------------------------------- the jobs table

\* The columns init_db creates.
JobsColumns ==
    {"job_id", "title", "company", "location", "url", "source", "status", "score",
     "baseline_score", "analysis", "cover_letter", "notes", "raw_text", "created_at",
     "updated_at", "email_date", "is_filtered"}

\* A row for which only job_id is given: the DEFAULT clauses of init_db.
DefaultRow ==
    [job_id |-> NULL, title |-> NULL, company |-> NULL, location |-> NULL,
     url |-> NULL, source |-> NULL, status |-> "new", score |-> 0,
     baseline_score |-> 0, analysis |-> None, cover_letter |-> NULL, notes |-> NULL,
     raw_text |-> NULL, created_at |-> None, updated_at |-> None,
     email_date |-> None, is_filtered |-> 0]

\* row with the columns of given overwritten
Overwrite(row, given) ==
    [c \in DOMAIN row |-> IF c \in DOMAIN given THEN given[c] ELSE row[c]]

\* SELECT 1 FROM jobs WHERE job_id = ?
Exists(db, job_id) == \E r \in db : r.job_id = job_id

\* The INSERT on a table whose job_id is no key: a second row with the same
\* id is stored beside the first.
SqlInsertNoKey(db, given) ==
    IF ~(DOMAIN given \subseteq JobsColumns)
    THEN [error |-> "OperationalError", db |-> db]
    ELSE [error |-> "", db |-> db \cup {Overwrite(DefaultRow, given)}]

\* INSERT INTO jobs (columns of given) VALUES (...): sqlite3 raises
\* OperationalError for a column the table does not have and IntegrityError
\* for a second row with the same primary key.
SqlInsert(db, given) ==
    IF ~(DOMAIN given \subseteq JobsColumns)
    THEN [error |-> "OperationalError", db |-> db]
    ELSE IF Exists(db, given.job_id)
    THEN [error |-> "IntegrityError", db |-> db]
    ELSE [error |-> "", db |-> db \cup {Overwrite(DefaultRow, given)}]

\* UPDATE jobs SET (columns of given) WHERE job_id = ?, with
\* "AND (description IS NULL OR description = '')" when ifNoDescription; used
\* are the columns the statement names.
SqlUpdate(db, job_id, given, ifNoDescription, used) ==
    IF ~(used \subseteq JobsColumns)
    THEN [error |-> "OperationalError", db |-> db]
    ELSE [error |-> "",
          db |-> {IF r.job_id = job_id
                     /\ (ifNoDescription => r.description \in {NULL, ""})
                  THEN Overwrite(r, given) ELSE r : r \in db}]

\* -------------------------------------------------------------- ingestion

\* The values bound by the INSERT of api_scan for one job and filter result;
\* api_scan_wwr binds the description column as well.
InsertValues(job, f, today, withDescription) ==
    LET base == [job_id |-> job.job_id, title |-> job.title, company |-> job.company,
                 location |-> job.location, url |-> job.url, source |-> job.source,
                 raw_text |-> job.raw_text, baseline_score |-> f.baseline_score,
                 created_at |-> job.created_at, updated_at |-> Some(today),
                 email_date |-> job.email_date]
        flag == IF Truthy(f.keep) THEN [is_filtered |-> 0]
                ELSE [is_filtered |-> 1, notes |-> f.reason]
    IN  IF withDescription THEN base @@ flag @@ [description |-> job.description]
        ELSE base @@ flag

RECURSIVE IngestLoopReplacing(_, _, _, _, _, _)
\* The loop without its "if existing: continue" and with INSERT OR REPLACE:
\* the row of a known id is replaced by the newly parsed one.
IngestLoopReplacing(jobs, i, gen, today, withDescription, acc) ==
    IF i > Len(jobs) \/ acc.error # "" THEN acc
    ELSE IngestLoopReplacing(jobs, i + 1, gen, today, withDescription,
             [db |-> SqlInsert({r \in acc.db : r.job_id # jobs[i].job_id},
                               InsertValues(jobs[i], ai_filter_and_score(gen[i]), today,
                                            withDescription)).db,
              new |-> acc.new + 1, filtered |-> acc.filtered, ran |-> acc.ran,
              error |-> IF withDescription THEN "OperationalError" ELSE ""])

RECURSIVE IngestLoop(_, _, _, _, _, _)
\* The "for job in jobs" loop of api_scan and api_scan_wwr from job i on.
\* acc is [db, new, filtered, ran, error]; gen[i] is what the generative call
\* returns for job i; ran records the filter calls made.
IngestLoop(jobs, i, gen, today, withDescription, acc) ==
    IF i > Len(jobs) \/ acc.error # "" THEN acc
    ELSE IF Exists(acc.db, jobs[i].job_id)
    THEN IngestLoop(jobs, i + 1, gen, today, withDescription, acc)
    ELSE LET f   == ai_filter_and_score(gen[i])
             ins == SqlInsert(acc.db, InsertValues(jobs[i], f, today, withDescription))
             ran == acc.ran \cup {[job_id |-> jobs[i].job_id, keep |-> f.keep,
                                   reason |-> f.reason]}
         IN  IngestLoop(jobs, i + 1, gen, today, withDescription,
                 [db |-> ins.db,
                  new |-> IF ins.error = "" /\ Truthy(f.keep) THEN acc.new + 1 ELSE acc.new,
                  filtered |-> IF ins.error = "" /\ ~Truthy(f.keep)
                               THEN acc.filtered + 1 ELSE acc.filtered,
                  ran |-> ran, error |-> ins.error])

\* What a request answers: the HTTP status, and of the JSON body the fields
\* the model reads.  input names the documents or payload of the request, ids
\* are the job ids it handled, ran the filter calls it made.
Reply(op, http, input, ids, found, new, filtered, ran) ==
    [op |-> op, http |-> http, input |-> input, ids |-> ids,
     found |-> found, new |-> new, filtered |-> filtered, ran |-> ran]

\* A handler's effect: the table it leaves and its reply.
Result(db, reply) == [db |-> db, reply |-> reply]

JobIds(jobs) == {jobs[i].job_id : i \in 1..Len(jobs)}

\* The reply of api_scan and api_scan_wwr once the loop has ended.  An
\* exception leaves the handler before conn.commit(): the rows inserted by
\* the request are not persisted and the request answers 500.
IngestResult(op, input, db, jobs, acc) ==
    IF acc.error # ""
    THEN Result(db, Reply(op, 500, input, JobIds(jobs), Len(jobs), 0, 0, acc.ran))
    ELSE Result(acc.db, Reply(op, 200, input, JobIds(jobs), Len(jobs), acc.new,
                              acc.filtered, acc.ran))

\* The body of api_scan and api_scan_wwr after the jobs are fetched.
Ingest(op, input, db, jobs, gen, hasResumes, today, withDescription) ==
    IF ~hasResumes THEN Result(db, Reply(op, 400, input, {}, 0, 0, 0, {}))
    ELSE IngestResult(op, input, db, jobs,
             IngestLoop(jobs, 1, gen, today, withDescription,
                 [db |-> db, new |-> 0, filtered |-> 0, ran |-> {}, error |-> ""]))

ScanFetched(db, mail, scanned, gen, hasResumes, today) ==
    IF scanned.raised THEN Result(db, Reply("scan", 500, mail.name, {}, 0, 0, 0, {}))
    ELSE Ingest("scan", mail.name, db, scanned.jobs, gen, hasResumes, today, FALSE)

CaptureDescriptionCap == 5000

CaptureRawTextCap == 2000

DefaultBaseline == 50

\* The source api_capture stores: detected from the cleaned URL, else the
\* payload's.
CaptureSource(url, source) ==
    IF Contains(url, "linkedin.com") THEN "linkedin"
    ELSE IF Contains(url, "indeed.com") THEN "indeed"
    ELSE IF Contains(url, "weworkremotely.com") THEN "weworkremotely"
    ELSE source

\* The end of api_capture for a known posting: upd is what the UPDATE did.
CaptureUpdated(data, cap, upd) ==
    Result(upd.db, Reply("capture", IF upd.error = "" THEN 200 ELSE 500, data.name,
                         {cap.job_id}, 1, 0, 0, {}))

\* The end of api_capture for a new posting: ins is what the INSERT did.
CaptureInserted(db, data, cap, f, hasResumes, ins) ==
    Result(ins.db,
           Reply("capture", IF ins.error = "" THEN 200 ELSE 500, data.name,
                 {cap.job_id}, 1, IF ins.error = "" THEN 1 ELSE 0, 0,
                 IF hasResumes
                 THEN {[job_id |-> cap.job_id, keep |-> f.keep, reason |-> f.reason]}
                 ELSE {}))

\* The first lines of api_capture: the cleaned URL, the detected source and
\* the identity.
CaptureCleaned(data, url) ==
    [url |-> url, job_id |-> generate_job_id(url, data.title, data.company),
     source |-> CaptureSource(url, data.source)]

CaptureParsed(data) == CaptureCleaned(data, clean_job_url(data.url))

\* api_capture from the validation on; cap is CaptureParsed(data) and f the
\* result of the filter call, which is made only when resumes are loaded.
CaptureStore(db, data, cap, f, hasResumes, today) ==
    IF cap.url = "" \/ data.title = ""
    THEN Result(db, Reply("capture", 400, data.name, {}, 0, 0, 0, {}))
    ELSE IF Exists(db, cap.job_id)
    THEN CaptureUpdated(data, cap,
             SqlUpdate(db, cap.job_id,
                 [description |-> Prefix(data.description, CaptureDescriptionCap),
                  raw_text |-> Prefix(data.description, CaptureRawTextCap),
                  updated_at |-> Some(today)],
                 TRUE,
                 {"description", "raw_text", "updated_at", "job_id"}))
    ELSE CaptureInserted(db, data, cap, f, hasResumes,
             SqlInsert(db,
                 [job_id |-> cap.job_id, title |-> Prefix(data.title, TitleCap),
                  company |-> Prefix(data.company, CompanyCap),
                  location |-> Prefix(data.location, LocationCap), url |-> cap.url,
                  source |-> cap.source,
                  description |-> Prefix(data.description, CaptureDescriptionCap),
                  raw_text |-> Prefix(data.description, CaptureRawTextCap),
                  baseline_score |-> IF hasResumes THEN f.baseline_score
                                     ELSE DefaultBaseline,
                  created_at |-> Some(today), updated_at |-> Some(today),
                  is_filtered |-> 0]))

\* ------------------------------------------- analysis, status, cover letter

\* The SELECT of api_analyze without its "is_filtered = 0".
ToAnalyzeAll(db) == {r \in db : r.score = 0}

\* SELECT * FROM jobs WHERE is_filtered = 0 AND (score = 0 OR score IS NULL)
ToAnalyze(db) == {r \in db : r.is_filtered = 0 /\ r.score = 0}

\* The row the UPDATE of api_analyze leaves for one analysed job.
Analyzed(r, analysis, today) ==
    Overwrite(r, [score |-> IF analysis.qualification_score = None THEN 0
                            ELSE analysis.qualification_score[1],
                  analysis |-> Some(analysis),
                  status |-> IF Truthy(analysis.should_apply) THEN "interested" ELSE "new",
                  updated_at |-> Some(today)])

\* gen[job_id] is what the generative call returns for that job.
api_analyze(db, gen, hasResumes, today) ==
    IF ~hasResumes THEN Result(db, Reply("analyze", 400, "", {}, 0, 0, 0, {}))
    ELSE Result({IF r \in ToAnalyze(db) THEN Analyzed(r, analyze_job(gen[r.job_id]), today)
                 ELSE r : r \in db},
                Reply("analyze", 200, "", {r.job_id : r \in ToAnalyze(db)},
                      Cardinality(ToAnalyze(db)), 0, 0, {}))

\* dict(fetchone()) raises TypeError when no row has the id.
api_cover_letter(db, job_id, resp, today) ==
    IF ~Exists(db, job_id) THEN Result(db, Reply("cover_letter", 500, job_id, {}, 0, 0, 0, {}))
    ELSE Result(SqlUpdate(db, job_id,
                          [cover_letter |-> generate_cover_letter(resp),
                           updated_at |-> Some(today)],
                          FALSE, {"cover_letter", "updated_at", "job_id"}).db,
                Reply("cover_letter", 200, job_id, {job_id}, 1, 0, 0, {}))

update_job(db, job_id, status, today) ==
    Result(SqlUpdate(db, job_id, [status |-> status, updated_at |-> Some(today)],
                     FALSE, {"status", "updated_at", "job_id"}).db,
           Reply("update_job", 200, job_id, {job_id}, 1, 0, 0, {}))

\* ------------------------------------------------------------------ listing

\* SELECT * FROM jobs WHERE is_filtered = 0 [AND status = ?]
\* [AND baseline_score >= ?]: a clause is added when its parameter is truthy.
Selected(db, status, min_score) ==
    {r \in db : /\ r.is_filtered = 0
                /\ status # "" => r.status = status
                /\ min_score # 0 => r.baseline_score >= min_score}

\* The orders in which fetchall() can return the rows S: the statement has no
\* ORDER BY.
Orders(S) ==
    {f \in [1..Cardinality(S) -> S] : \A i, j \in 1..Cardinality(S) : f[i] = f[j] => i = j}

\* job['weighted_score'] = calculate_weighted_score(baseline_score, email_date)
WithWeighted(r, today) ==
    r @@ [weighted_score |-> calculate_weighted_score(r.baseline_score, r.email_date, today)]

\* A sort that puts an element before those of equal key.
InsertDescBeforeEqual(sorted, job) ==
    SubSeq(sorted, 1, Cardinality({i \in 1..Len(sorted) :
                                      sorted[i].weighted_score > job.weighted_score}))
    \o <<job>>
    \o SubSeq(sorted, Cardinality({i \in 1..Len(sorted) :
                                      sorted[i].weighted_score > job.weighted_score}) + 1,
              Len(sorted))

\* job placed into the descending list after every element whose key is not
\* smaller: list.sort is stable, with reverse=True as well.
InsertDesc(sorted, job) ==
    SubSeq(sorted, 1, Cardinality({i \in 1..Len(sorted) :
                                      sorted[i].weighted_score >= job.weighted_score}))
    \o <<job>>
    \o SubSeq(sorted, Cardinality({i \in 1..Len(sorted) :
                                      sorted[i].weighted_score >= job.weighted_score}) + 1,
              Len(sorted))

RECURSIVE SortDesc(_)
\* jobs.sort(key=lambda x: x['weighted_score'], reverse=True)
SortDesc(jobs) ==
    IF jobs = <<>> THEN <<>>
    ELSE InsertDesc(SortDesc(SubSeq(jobs, 1, Len(jobs) - 1)), jobs[Len(jobs)])

\* get_jobs: fetched is what fetchall() returned; the reply carries it and
\* the sorted list of the JSON body.
get_jobs(db, fetched, today) ==
    Result(db,
           Reply("get_jobs", 200, "", {fetched[i].job_id : i \in 1..Len(fetched)},
                 Len(fetched), 0, 0, {})
           @@ [fetched |-> fetched,
               jobs |-> SortDesc([i \in 1..Len(fetched) |-> WithWeighted(fetched[i], today)])])

\* ------------------------------------------------------------ input domains

MaxParams == 2

UrlBases ==
    {"https://www.linkedin.com/comm/jobs/view/101/",
     "https://www.linkedin.com/jobs/search/",
     "https://www.indeed.com/rc/clk",
     "https://weworkremotely.com/remote-jobs/acme-123",
     "https://example.com/careers/7"}

UrlParams ==
    {"trk=eml", "utm_source=x", "currentJobId=102", "currentJobId=1%2F2", "jk=abc",
     "jk=a%2Bb", "vjk=def", "id=7", "page=2", "q=a+b"}

RECURSIVE QueriesOf(_)
\* The query strings of at most n parameters.
QueriesOf(n) ==
    IF n = 0 THEN {""}
    ELSE QueriesOf(n - 1) \cup
         {IF q = "" THEN p ELSE q \o "&" \o p : q \in QueriesOf(n - 1) \ {""}, p \in UrlParams}
         \cup UrlParams

UrlsWith(n) ==
    {IF q = "" THEN b ELSE b \o "?" \o q : b \in UrlBases, q \in QueriesOf(n)}
    \cup {"", "https://example.com/careers/7#apply",
          "https://www.linkedin.com/jobs/view/101",
          "https://www.indeed.com/viewjob?jk=abc",
          "https://example.com/careers/7?id=7&page=2&id=8",
          "https://example.com/careers/7?id=7&utm_source=x&page=2"}

Urls == UrlsWith(MaxParams)

IdUrls == UrlsWith(MaxParams - 1)

Titles == {"Backend Dev", "backend dev", "SRE"}

Companies == {"Acme", "ACME", ""}

FilterReasons == {"kept: good location and skill match", "filtered: requires 15+ years"}

FilterScores == {0, 20, 85}

FilterResponses ==
    {[kind |-> k, keep |-> "absent", baseline_score |-> None, filter_reason |-> "absent"] :
        k \in {"raises", "no_json", "bad_json"}}
    \cup [kind : {"object"}, keep : {"absent", "True", "False", "None"},
          baseline_score : {None} \cup {Some(n) : n \in FilterScores},
          filter_reason : {"absent"} \cup FilterReasons]

MaxBaseline == 100

MaxAge == 35

\* ------------------------------------------------- single calls (SpecCalls)

NoCall == [fn |-> "none", args |-> <<>>, ret |-> None]

PendingCalls ==
    {[fn |-> "clean_job_url", args |-> <<u>>, ret |-> None] : u \in Urls}
    \cup {[fn |-> "generate_job_id", args |-> <<u, t, c>>, ret |-> None] :
             u \in IdUrls, t \in Titles, c \in Companies}
    \cup {[fn |-> "ai_filter_and_score", args |-> <<r>>, ret |-> None] :
             r \in FilterResponses}
    \cup {[fn |-> "calculate_weighted_score", args |-> <<b, d>>, ret |-> None] :
             b \in 0..MaxBaseline, d \in 0..MaxAge}

Pending(fn) == call.fn = fn /\ call.ret = None

Returned(fn) == call.fn = fn /\ call.ret # None

CallCleanJobUrl ==
    /\ Pending("clean_job_url")
    /\ call' = [call EXCEPT !.ret = Some(clean_job_url(call.args[1]))]
    /\ UNCHANGED <<store, resumes, now, last, steps, inflight>>

CallGenerateJobId ==
    /\ Pending("generate_job_id")
    /\ call' = [call EXCEPT
                  !.ret = Some(generate_job_id(call.args[1], call.args[2], call.args[3]))]
    /\ UNCHANGED <<store, resumes, now, last, steps, inflight>>

CallFilterAndScore ==
    /\ Pending("ai_filter_and_score")
    /\ call' = [call EXCEPT !.ret = Some(ai_filter_and_score(call.args[1]))]
    /\ UNCHANGED <<store, resumes, now, last, steps, inflight>>

\* The posting is call.args[2] days old: it is dated day 0 and read on day d.
CallWeightedScore ==
    /\ Pending("calculate_weighted_score")
    /\ call' = [call EXCEPT
                  !.ret = Some(calculate_weighted_score(call.args[1], Some(0),
                                                        call.args[2]))]
    /\ UNCHANGED <<store, resumes, now, last, steps, inflight>>

\* ------------------------------------------------------ requests (Spec)

MaxSteps == 3

StartDay == 40

LinkedInDigest ==
    [date |-> StartDay - 1,
     html |-> << [href |-> "https://www.linkedin.com/comm/jobs/view/101/?trk=eml",
                  title |-> "Backend Dev", has_parent |-> TRUE,
                  nodes |-> <<"Backend Dev | Acme | Remote">>],
                 [href |-> "https://www.linkedin.com/comm/jobs/view/101/?refId=z",
                  title |-> "Backend Dev", has_parent |-> TRUE,
                  nodes |-> <<"Backend Dev | Acme | Remote">>],
                 [href |-> "https://www.linkedin.com/jobs/search/?currentJobId=102&trk=eml",
                  title |-> "SRE", has_parent |-> FALSE, nodes |-> <<>>] >>]

IndeedDigest ==
    [date |-> StartDay - 2,
     html |-> << [href |-> "https://www.indeed.com/rc/clk?jk=abc&from=ja",
                  title |-> "Data Engineer", has_parent |-> TRUE,
                  nodes |-> <<"Data Engineer", "Globex", "San Diego, CA">>] >>]

NoMessages == [msgs |-> <<>>, fails_at |-> 0]

\* What the mail capability yields for one scan.
MailInputs ==
    {[name |-> "inbox", service_ok |-> TRUE,
      queries |-> <<[msgs |-> <<LinkedInDigest>>, fails_at |-> 0], NoMessages,
                    [msgs |-> <<IndeedDigest>>, fails_at |-> 0], NoMessages>>],
     [name |-> "linkedin query fails", service_ok |-> TRUE,
      queries |-> <<[msgs |-> <<LinkedInDigest>>, fails_at |-> 1], NoMessages,
                    [msgs |-> <<IndeedDigest>>, fails_at |-> 0], NoMessages>>],
     [name |-> "no credentials", service_ok |-> FALSE, queries |-> <<>>]}

Leaf(text) == [present |-> TRUE, children |-> FALSE, text |-> text]

Nested(text) == [present |-> TRUE, children |-> TRUE, text |-> text]

AcmeItem ==
    [title |-> Nested("Acme Corp: Senior Backend Engineer"),
     link |-> Nested("https://weworkremotely.com/remote-jobs/acme-123?utm_source=x"),
     description |-> "Build APIs", pubDate |-> [kind |-> "aware", day |-> StartDay - 1]]

PlainItem ==
    [title |-> Leaf("Initech: Platform Engineer"),
     link |-> Leaf("https://weworkremotely.com/remote-jobs/initech-9"),
     description |-> NULL, pubDate |-> [kind |-> "none", day |-> 0]]

\* What the feed capability yields for one scan: one fetch per feed URL.
FeedInputs ==
    {[name |-> "feeds", feeds |-> <<[ok |-> TRUE, items |-> <<AcmeItem, PlainItem>>],
                                    [ok |-> FALSE, items |-> <<>>],
                                    [ok |-> TRUE, items |-> <<>>]>>],
     [name |-> "plain feeds", feeds |-> <<[ok |-> TRUE, items |-> <<PlainItem>>],
                                          [ok |-> TRUE, items |-> <<>>],
                                          [ok |-> TRUE, items |-> <<>>]>>]}

\* Payloads of the browser extension.
CaptureInputs ==
    {[name |-> "known posting", url |-> "https://www.linkedin.com/jobs/view/101?trk=ext",
      title |-> "Backend Dev", company |-> "Acme", location |-> "Remote",
      description |-> "Build services", source |-> "extension"],
     [name |-> "new posting", url |-> "https://example.com/careers/7?utm_source=x",
      title |-> "Platform Engineer", company |-> "Initech", location |-> "Remote",
      description |-> "Run the platform", source |-> "extension"],
     [name |-> "no title", url |-> "https://example.com/careers/8",
      title |-> "", company |-> "", location |-> "Remote",
      description |-> "", source |-> "extension"]}

\* The generative outcomes the requests are run with.
ScanResponses ==
    {[kind |-> "raises", keep |-> "absent", baseline_score |-> None,
      filter_reason |-> "absent"],
     [kind |-> "object", keep |-> "True", baseline_score |-> Some(85),
      filter_reason |-> "kept: good location and skill match"],
     [kind |-> "object", keep |-> "False", baseline_score |-> Some(20),
      filter_reason |-> "filtered: requires 15+ years"]}

AnalysisResponses ==
    {[kind |-> "raises", qualification_score |-> None, should_apply |-> "absent"],
     [kind |-> "no_json", qualification_score |-> None, should_apply |-> "absent"],
     [kind |-> "object", qualification_score |-> Some(90), should_apply |-> "True"],
     [kind |-> "object", qualification_score |-> Some(40), should_apply |-> "False"]}

CoverResponses ==
    {[kind |-> "raises", text |-> ""], [kind |-> "text", text |-> "Dear hiring manager"]}

\* The status of the payload of update_job; "archived" is no status of the
\* application.
StatusInputs == {"applied", "archived"}

\* The days a run can reach.
Days == StartDay..(StartDay + MaxSteps)

\* What scan_emails, fetch_wwr_jobs and the first lines of api_capture make
\* of each input.
ScannedMail == [m \in MailInputs |-> scan_emails(m)]

FetchedFeeds == [f \in FeedInputs |-> [d \in Days |-> fetch_wwr_jobs(f.feeds, d)]]

Captured == [d \in CaptureInputs |-> CaptureParsed(d)]

api_scan(db, mail, gen, hasResumes, today) ==
    ScanFetched(db, mail, ScannedMail[mail], gen, hasResumes, today)

api_scan_wwr(db, feed, gen, hasResumes, today) ==
    Ingest("wwr", feed.name, db, FetchedFeeds[feed][today], gen, hasResumes, today, TRUE)

api_capture(db, data, resp, hasResumes, today) ==
    CaptureStore(db, data, Captured[data], ai_filter_and_score(resp), hasResumes, today)

\* Ids a request may name: those of the stored rows and one that no row has.
RequestIds(db) == {r.job_id : r \in db} \cup {"no such id"}

NoRequest == Reply("none", 200, "", {}, 0, 0, 0, {})

\* Every request below is one handler run from its first line to its reply.
Scan ==
    /\ steps < MaxSteps
    /\ \E mail \in MailInputs :
          \E gen \in [1..Len(ScannedMail[mail].jobs) -> ScanResponses] :
              \E result \in {api_scan(store, mail, gen, resumes, now)} :
                  store' = result.db /\ last' = result.reply
    /\ steps' = steps + 1
    /\ UNCHANGED <<resumes, now, call, inflight>>

ScanWwr ==
    /\ steps < MaxSteps
    /\ \E feed \in FeedInputs :
          \E gen \in [1..Len(FetchedFeeds[feed][now]) -> ScanResponses] :
              \E result \in {api_scan_wwr(store, feed, gen, resumes, now)} :
                  store' = result.db /\ last' = result.reply
    /\ steps' = steps + 1
    /\ UNCHANGED <<resumes, now, call, inflight>>

Capture ==
    /\ steps < MaxSteps
    /\ \E data \in CaptureInputs, resp \in ScanResponses :
          \E result \in {api_capture(store, data, resp, resumes, now)} :
              store' = result.db /\ last' = result.reply
    /\ steps' = steps + 1
    /\ UNCHANGED <<resumes, now, call, inflight>>

Analyze ==
    /\ steps < MaxSteps
    /\ \E gen \in [{r.job_id : r \in ToAnalyze(store)} -> AnalysisResponses] :
          \E result \in {api_analyze(store, gen, resumes, now)} :
              store' = result.db /\ last' = result.reply
    /\ steps' = steps + 1
    /\ UNCHANGED <<resumes, now, call, inflight>>

CoverLetter ==
    /\ steps < MaxSteps
    /\ \E job_id \in RequestIds(store), resp \in CoverResponses :
          \E result \in {api_cover_letter(store, job_id, resp, now)} :
              store' = result.db /\ last' = result.reply
    /\ steps' = steps + 1
    /\ UNCHANGED <<resumes, now, call, inflight>>

UpdateJob ==
    /\ steps < MaxSteps
    /\ \E job_id \in RequestIds(store), status \in StatusInputs :
          \E result \in {update_job(store, job_id, status, now)} :
              store' = result.db /\ last' = result.reply
    /\ steps' = steps + 1
    /\ UNCHANGED <<resumes, now, call, inflight>>

\* The parameters the listing is asked with.
StatusFilters == {"", "applied"}

MinScores == {0, 50}

GetJobs ==
    /\ steps < MaxSteps
    /\ \E status \in StatusFilters, min_score \in MinScores :
          \E fetched \in Orders(Selected(store, status, min_score)) :
              \E result \in {get_jobs(store, fetched, now)} :
                  store' = result.db /\ last' = result.reply
    /\ steps' = steps + 1
    /\ UNCHANGED <<resumes, now, call, inflight>>

\* A day passes.
Tick ==
    /\ steps < MaxSteps
    /\ steps' = steps + 1
    /\ now' = now + 1
    /\ UNCHANGED <<store, resumes, last, call, inflight>>

\* The user puts resume files into the resumes folder, or empties it.
ChangeResumes ==
    /\ steps < MaxSteps
    /\ steps' = steps + 1
    /\ resumes' = ~resumes
    /\ UNCHANGED <<store, now, last, call, inflight>>

\* ------------------------------- parser and analysis calls (SpecCalls)

\* An Indeed digest that links the same posting twice.
IndeedTwice ==
    [date |-> StartDay - 2,
     html |-> << [href |-> "https://www.indeed.com/rc/clk?jk=abc&from=ja",
                  title |-> "Data Engineer", has_parent |-> TRUE,
                  nodes |-> <<"Data Engineer", "Globex", "San Diego, CA">>],
                 [href |-> "https://www.indeed.com/viewjob?jk=abc&tk=1",
                  title |-> "Data Engineer", has_parent |-> FALSE, nodes |-> <<>>] >>]

\* Digests whose postings are linked twice, first by a logo (a link without
\* text), then by the title.
LinkedInLogoFirst ==
    [date |-> StartDay - 1,
     html |-> << [href |-> "https://www.linkedin.com/comm/jobs/view/103/?trk=logo",
                  title |-> "", has_parent |-> TRUE,
                  nodes |-> <<"Staff Engineer | Hooli | Remote">>],
                 [href |-> "https://www.linkedin.com/comm/jobs/view/103/?trk=title",
                  title |-> "Staff Engineer", has_parent |-> TRUE,
                  nodes |-> <<"Staff Engineer | Hooli | Remote">>] >>]

IndeedLogoFirst ==
    [date |-> StartDay - 2,
     html |-> << [href |-> "https://www.indeed.com/rc/clk?jk=xyz&from=logo",
                  title |-> "QA", has_parent |-> FALSE, nodes |-> <<>>],
                 [href |-> "https://www.indeed.com/rc/clk?jk=xyz&from=ja",
                  title |-> "QA Lead", has_parent |-> TRUE,
                  nodes |-> <<"QA Lead", "Umbrella", "Remote">>] >>]

EmailInputs ==
    {LinkedInDigest, IndeedDigest, IndeedTwice, LinkedInLogoFirst, IndeedLogoFirst}

\* Feed items published before the cutoff: one whose date parses to a naive
\* datetime, one whose date carries a UTC offset.
OldItem ==
    [title |-> Nested("Globex: Data Engineer"),
     link |-> Nested("https://weworkremotely.com/remote-jobs/globex-5"),
     description |-> "Pipelines",
     pubDate |-> [kind |-> "naive", day |-> StartDay - DaysBack - 3]]

OldAwareItem ==
    [title |-> Nested("Hooli: Designer"),
     link |-> Nested("https://weworkremotely.com/remote-jobs/hooli-2"),
     description |-> "Design",
     pubDate |-> [kind |-> "aware", day |-> StartDay - DaysBack - 3]]

RecentItem ==
    [title |-> Nested("Umbrella:  QA: Lead "),
     link |-> Nested("https://weworkremotely.com/remote-jobs/umbrella-4?ref=rss"),
     description |-> "Testing",
     pubDate |-> [kind |-> "naive", day |-> StartDay - 2]]

\* What the feeds answer in the calls of fetch_wwr_jobs: the inputs of the
\* feed scan, a posting listed by two category feeds, and feeds with old items.
FeedCalls ==
    FeedInputs
    \cup {[name |-> "two categories",
           feeds |-> <<[ok |-> TRUE, items |-> <<AcmeItem, RecentItem>>],
                       [ok |-> TRUE, items |-> <<AcmeItem>>],
                       [ok |-> TRUE, items |-> <<>>]>>],
          [name |-> "old items",
           feeds |-> <<[ok |-> TRUE, items |-> <<OldItem, RecentItem>>],
                       [ok |-> TRUE, items |-> <<OldAwareItem>>],
                       [ok |-> FALSE, items |-> <<>>]>>]}

\* What the generative call of analyze_job can come back with.
AnalysisCalls ==
    AnalysisResponses
    \cup {[kind |-> "bad_json", qualification_score |-> None, should_apply |-> "absent"],
          [kind |-> "object", qualification_score |-> Some(0), should_apply |-> "False"],
          [kind |-> "object", qualification_score |-> None, should_apply |-> "absent"]}

PendingParserCalls ==
    {[fn |-> f, args |-> <<e.html, e.date>>, ret |-> None] :
        f \in {"parse_linkedin_jobs", "parse_indeed_jobs"}, e \in EmailInputs}
    \cup {[fn |-> "fetch_wwr_jobs", args |-> <<f.feeds, d>>, ret |-> None] :
             f \in FeedCalls, d \in Days}
    \cup {[fn |-> "analyze_job", args |-> <<r>>, ret |-> None] : r \in AnalysisCalls}

CallAnalyzeJob ==
    /\ Pending("analyze_job")
    /\ call' = [call EXCEPT !.ret = Some(analyze_job(call.args[1]))]
    /\ UNCHANGED <<store, resumes, now, last, steps, inflight>>

CallParseLinkedinJobs ==
    /\ Pending("parse_linkedin_jobs")
    /\ call' = [call EXCEPT !.ret = Some(parse_linkedin_jobs(call.args[1], call.args[2]))]
    /\ UNCHANGED <<store, resumes, now, last, steps, inflight>>

CallParseIndeedJobs ==
    /\ Pending("parse_indeed_jobs")
    /\ call' = [call EXCEPT !.ret = Some(parse_indeed_jobs(call.args[1], call.args[2]))]
    /\ UNCHANGED <<store, resumes, now, last, steps, inflight>>

\* The feeds are read on day call.args[2].
CallFetchWwrJobs ==
    /\ Pending("fetch_wwr_jobs")
    /\ call' = [call EXCEPT !.ret = Some(fetch_wwr_jobs(call.args[1], call.args[2]))]
    /\ UNCHANGED <<store, resumes, now, last, steps, inflight>>

\* After init_db(): an empty jobs table.
Init ==
    /\ store = {}
    /\ resumes \in BOOLEAN
    /\ now = StartDay
    /\ last = NoRequest
    /\ steps = 0
    /\ call = NoCall
    /\ inflight = <<>>

Next ==
    \/ Scan
    \/ ScanWwr
    \/ Capture
    \/ Analyze
    \/ CoverLetter
    \/ UpdateJob
    \/ GetJobs
    \/ Tick
    \/ ChangeResumes

Spec == Init /\ [][Next]_vars

InitCalls ==
    /\ store = {}
    /\ resumes = FALSE
    /\ now = StartDay
    /\ last = NoRequest
    /\ steps = 0
    /\ call \in PendingCalls \cup PendingParserCalls
    /\ inflight = <<>>

NextCalls ==
    \/ CallCleanJobUrl
    \/ CallGenerateJobId
    \/ CallFilterAndScore
    \/ CallWeightedScore
    \/ CallParseLinkedinJobs
    \/ CallParseIndeedJobs
    \/ CallFetchWwrJobs
    \/ CallAnalyzeJob

SpecCalls == InitCalls /\ [][NextCalls]_vars

\* ----------------------------------- interleaved ingestions (SpecRace)
\* The development server of app.run() serves every request in a thread of
\* its own; each request opens its own connection (get_db) and commits once,
\* after its loop.  Two api_scan requests are followed statement by
\* statement: the SELECT of the existence check, the filter call with the
\* INSERT, and the commit.

Workers == {1, 2}

\* A request past scan_emails() and the resume test.  i is the job the loop
\* is at, passed the ids whose existence check found no row, writes the rows
\* inserted by the open transaction.
StartedScan(jobs) ==
    [pc |-> "check", jobs |-> jobs, i |-> 1, passed |-> {}, writes |-> {}, error |-> ""]

\* What the connection of worker w reads: the committed rows and its own.
Visible(w) == store \cup inflight[w].writes

\* Whether another connection has an open write transaction.
WriteLocked(w) == \E v \in Workers \ {w} : inflight[v].writes # {}

\* The exception leaves the handler: nothing is committed, the request
\* answers 500.
RaceFailed(r, error) == [r EXCEPT !.pc = "failed", !.writes = {}, !.error = error]

\* The request after the INSERT ins for job r.i.
RaceInserted(r, ins) ==
    IF ins.error # "" THEN RaceFailed(r, ins.error)
    ELSE [r EXCEPT !.pc = "check", !.i = r.i + 1, !.writes = ins.db \ store]

\* existing = SELECT 1 FROM jobs WHERE job_id = ?; if existing: continue
RaceCheck(w) ==
    /\ inflight[w].pc = "check"
    /\ inflight[w].i <= Len(inflight[w].jobs)
    /\ inflight' =
          [inflight EXCEPT ![w] =
              IF Exists(Visible(w), inflight[w].jobs[inflight[w].i].job_id)
              THEN [@ EXCEPT !.i = @ + 1]
              ELSE [@ EXCEPT !.pc = "insert",
                             !.passed = @ \cup {inflight[w].jobs[inflight[w].i].job_id}]]
    /\ UNCHANGED <<store, resumes, now, last, steps, call>>

\* ai_filter_and_score and the INSERT, when no other connection is writing.
RaceInsert(w) ==
    /\ inflight[w].pc = "insert"
    /\ ~WriteLocked(w)
    /\ \E resp \in ScanResponses :
          \E ins \in {SqlInsert(Visible(w),
                                InsertValues(inflight[w].jobs[inflight[w].i],
                                             ai_filter_and_score(resp), now, FALSE))} :
              inflight' = [inflight EXCEPT ![w] = RaceInserted(inflight[w], ins)]
    /\ UNCHANGED <<store, resumes, now, last, steps, call>>

\* The INSERT while another connection is writing: it waits (no step) or,
\* after the busy timeout of sqlite3.connect, raises "database is locked".
RaceLocked(w) ==
    /\ inflight[w].pc = "insert"
    /\ WriteLocked(w)
    /\ inflight' = [inflight EXCEPT ![w] = RaceFailed(inflight[w], "OperationalError")]
    /\ UNCHANGED <<store, resumes, now, last, steps, call>>

\* conn.commit() after the loop.
RaceCommit(w) ==
    /\ inflight[w].pc = "check"
    /\ inflight[w].i > Len(inflight[w].jobs)
    /\ store' = store \cup inflight[w].writes
    /\ inflight' = [inflight EXCEPT ![w] = [@ EXCEPT !.pc = "done", !.writes = {}]]
    /\ UNCHANGED <<resumes, now, last, steps, call>>

\* Two scans started on what the mail service lists, resumes loaded, on an
\* empty table.
InitRace ==
    /\ store = {}
    /\ resumes = TRUE
    /\ now = StartDay
    /\ last = NoRequest
    /\ steps = 0
    /\ call = NoCall
    /\ inflight \in [Workers -> {StartedScan(ScannedMail[m].jobs) :
                                    m \in {n \in MailInputs : n.service_ok}}]

NextRace ==
    \/ \E w \in Workers : RaceCheck(w)
    \/ \E w \in Workers : RaceInsert(w)
    \/ \E w \in Workers : RaceLocked(w)
    \/ \E w \in Workers : RaceCommit(w)

SpecRace == InitRace /\ [][NextRace]_vars

\* ------------------------------- postings with long titles (SpecLongTitles)
\* The requests of Spec on a mailbox whose digests carry a posting under a
\* title longer than TitleCap.

\* A title of TitleCap characters, to which a digest appends the place.
LongTitle ==
    "Senior Staff Software Engineer, Platform Reliability and Developer Experience, "
    \o "Payments Infrastructure Group, reporting to the Vice President of Engineering; "
    \o "hybrid or remote, full time, the office in"

\* A LinkedIn digest whose one posting has the long title with a place.
LongTitleDigest(place) ==
    [date |-> StartDay - 1,
     html |-> << [href |-> "https://www.linkedin.com/comm/jobs/view/104/?trk=eml",
                  title |-> LongTitle \o place, has_parent |-> FALSE, nodes |-> <<>>] >>]

\* What the mail capability yields for one scan: the posting is announced
\* by both LinkedIn senders, or by the first only.
LongTitleMail ==
    {[name |-> "long titles", service_ok |-> TRUE,
      queries |-> <<[msgs |-> <<LongTitleDigest(" Berlin")>>, fails_at |-> 0],
                    [msgs |-> <<LongTitleDigest(" Paris")>>, fails_at |-> 0],
                    NoMessages, NoMessages>>],
     [name |-> "long title", service_ok |-> TRUE,
      queries |-> <<[msgs |-> <<LongTitleDigest(" Berlin")>>, fails_at |-> 0],
                    NoMessages, NoMessages, NoMessages>>]}

ScannedLongTitles == [m \in LongTitleMail |-> scan_emails(m)]

\* api_scan on that mailbox.
ScanLongTitles ==
    /\ steps < MaxSteps
    /\ \E mail \in LongTitleMail :
          \E gen \in [1..Len(ScannedLongTitles[mail].jobs) -> ScanResponses] :
              \E result \in {ScanFetched(store, mail, ScannedLongTitles[mail], gen,
                                         resumes, now)} :
                  store' = result.db /\ last' = result.reply
    /\ steps' = steps + 1
    /\ UNCHANGED <<resumes, now, call, inflight>>

NextLongTitles ==
    \/ ScanLongTitles
    \/ Analyze
    \/ CoverLetter
    \/ UpdateJob
    \/ GetJobs
    \/ Tick
    \/ ChangeResumes

SpecLongTitles == Init /\ [][NextLongTitles]_vars

\* ---------------------------------------------------------------- properties

\* The step serves one request, answered by one of the handlers ops.
Served(ops) ==
    /\ steps' = steps + 1
    /\ now' = now
    /\ resumes' = resumes
    /\ last'.op \in ops

\* The rows of db with the given id.
RowsOf(db, job_id) == {r \in db : r.job_id = job_id}

\* The columns an ingestion may not change on a row it finds: all but the
\* supplementary raw_text and updated_at.
FrameColumns == JobsColumns \ {"raw_text", "updated_at"}

\* C1: when an email scan or a feed scan is run a second time on the same
\* documents (resumes loaded, the first run having listed jobs), the second
\* run succeeds, reports new = 0, inserts nothing, and the store holds exactly
\* one row for every job identity of the documents.
C1_DedupAcrossScans ==
    [][(/\ Served({"scan", "wwr"})
        /\ resumes
        /\ last.op = last'.op
        /\ last.input = last'.input
        /\ last.http # 400
        /\ last.found > 0)
       => (/\ last'.http = 200
           /\ last'.new = 0
           /\ store' = store
           /\ \A id \in last'.ids : Cardinality(RowsOf(store', id)) = 1)]_vars

\* C2: an email scan, a feed scan or a capture leaves every row that is
\* already stored in place with its status, baseline_score and score (and
\* every column other than raw_text and updated_at) unchanged.
C2_ReingestionFrame ==
    [][Served({"scan", "wwr", "capture"})
       => \A r \in store :
              /\ RowsOf(store', r.job_id) # {}
              /\ \A r2 \in RowsOf(store', r.job_id) :
                     \A c \in FrameColumns : r2[c] = r[c]]_vars

\* C2, the case: a scan has just handled the id of a row whose status the
\* user had set before.
C2_Reingested ==
    /\ last.op = "scan"
    /\ last.http = 200
    /\ \E r \in store : r.job_id \in last.ids /\ r.status = "applied"

\* A response no filter result can be read from: the call raised, the text
\* held no JSON, or the JSON object lacks a key the function reads.
Malformed(resp) ==
    \/ resp.kind # "object"
    \/ resp.keep = "absent"
    \/ resp.baseline_score = None
    \/ resp.filter_reason = "absent"

\* C3: whenever the generative call fails or its response is unparseable or
\* malformed, ai_filter_and_score returns (True, 30, "filter error - kept by
\* default").
C3_FilterFallback ==
    (Returned("ai_filter_and_score") /\ Malformed(call.args[1]))
    => call.ret[1] = FilterFallback

\* C4: clean_job_url applied to its own result returns that result.
C4_CleanIdempotent ==
    Returned("clean_job_url") => clean_job_url(call.ret[1]) = call.ret[1]

\* C5: the id of (u, t, c) is the id of the already cleaned URL of u with any
\* title and company that differ from t and c in letter case only.
C5_IdentityStable ==
    Returned("generate_job_id")
    => \A t \in Titles, c \in Companies :
           (Lower(t) = Lower(call.args[2]) /\ Lower(c) = Lower(call.args[3]))
           => generate_job_id(clean_job_url(call.args[1]), t, c) = call.ret[1]

\* C6: after every step no row with is_filtered = 1 has a score or an
\* analysis, and no step changes the is_filtered of a stored row.
C6_FilteredNeverAnalyzed ==
    [][/\ \A r \in store' : r.is_filtered = 1 => (r.score = 0 /\ r.analysis = None)
       /\ \A r \in store : \A r2 \in RowsOf(store', r.job_id) :
              r2.is_filtered = r.is_filtered]_vars

\* C6, the case: the analysis pass has just analysed rows while a filtered
\* row is stored.
C6_AnalyzedBesideFiltered ==
    /\ last.op = "analyze"
    /\ last.http = 200
    /\ last.found > 0
    /\ \E r \in store : r.is_filtered = 1

\* C7: an email scan, a feed scan, a capture, the analysis pass and a cover
\* letter request leave the status of every stored row unchanged.
C7_StatusOnlyByUser ==
    [][Served({"scan", "wwr", "capture", "analyze", "cover_letter"})
       => \A r \in store : \A r2 \in RowsOf(store', r.job_id) :
              r2.status = r.status]_vars

\* C8: for every posting the last ingestion ran the filter on, exactly one
\* row is stored; it has is_filtered = 1 and the filter's reason in notes if
\* the filter returned a false keep, and is_filtered = 0 otherwise.
C8_FilterDecidesFlag ==
    last.op \in {"scan", "wwr", "capture"}
    => \A x \in last.ran :
           /\ Cardinality(RowsOf(store, x.job_id)) = 1
           /\ \A r \in RowsOf(store, x.job_id) :
                  /\ r.is_filtered = (IF Truthy(x.keep) THEN 0 ELSE 1)
                  /\ ~Truthy(x.keep) => r.notes = x.reason

\* C9: a capture with a url and a title answers without error and leaves
\* exactly one row with its id, of baseline_score 50 when the row is new and
\* no resumes are loaded.
C9_CaptureMerges ==
    (last.op = "capture" /\ last.http # 400)
    => /\ last.http = 200
       /\ \A id \in last.ids :
              /\ Cardinality(RowsOf(store, id)) = 1
              /\ (last.new = 1 /\ last.ran = {})
                 => \A r \in RowsOf(store, id) : r.baseline_score = DefaultBaseline

\* C10: in hundredths, calculate_weighted_score(b, d days old) is
\* 70 * b + 30 * max(0, 100 - d * 100 / 30), that is 70 * b + max(0, 3000 - 100 * d).
C10_RankingFormula ==
    Returned("calculate_weighted_score")
    => call.ret[1] = 70 * call.args[1] + Max({0, 3000 - 100 * call.args[2]})

\* The position of the row with the given id in a sequence of rows.
PositionOf(rows, job_id) == CHOOSE i \in 1..Len(rows) : rows[i].job_id = job_id

\* C11: the listing holds exactly the fetched rows, none of them filtered, in
\* non-increasing weighted score, rows of equal weighted score in the order
\* in which they were fetched.
C11_ListingSorted ==
    last.op = "get_jobs"
    => /\ {last.jobs[i].job_id : i \in 1..Len(last.jobs)} = last.ids
       /\ Len(last.jobs) = Len(last.fetched)
       /\ \A i \in 1..Len(last.jobs) : last.jobs[i].is_filtered = 0
       /\ \A i, j \in 1..Len(last.jobs) :
              i < j => /\ last.jobs[i].weighted_score >= last.jobs[j].weighted_score
                       /\ last.jobs[i].weighted_score = last.jobs[j].weighted_score
                          => PositionOf(last.fetched, last.jobs[i].job_id)
                             < PositionOf(last.fetched, last.jobs[j].job_id)

\* C11, the case: a listing with two rows of equal weighted score and one of
\* another, while a filtered row is stored.
C11_ListedWithTie ==
    /\ last.op = "get_jobs"
    /\ \E r \in store : r.is_filtered = 1
    /\ \E i, j \in 1..Len(last.jobs) :
           i # j /\ last.jobs[i].weighted_score = last.jobs[j].weighted_score

\* The handlers that load the resume corpus.
NeedResumes == {"scan", "wwr", "analyze", "cover_letter"}

\* C12: a request that needs the resume corpus, served while none is loaded,
\* answers the precondition error (HTTP 400) and leaves the table as it was.
C12_NoResumesNoChange ==
    [][(Served(NeedResumes) /\ ~resumes) => (last'.http = 400 /\ store' = store)]_vars

\* The elements of a sequence.
Range(seq) == {seq[i] : i \in 1..Len(seq)}

\* C13: an email scan or a feed scan is never ended by an exception of the
\* mail or feed capability: scan_emails and fetch_wwr_jobs return, and what
\* they return holds the jobs of every query and feed that did not fail.
C13_SourceFailuresContained ==
    /\ \A m \in MailInputs :
           (last.op = "scan" /\ last.input = m.name)
           => /\ ~ScannedMail[m].raised
              /\ \A n \in 1..Len(m.queries) :
                     m.queries[n].fails_at = 0
                     => Range(ParseMessages(n <= 2, m.queries[n].msgs))
                        \subseteq Range(ScannedMail[m].jobs)
    /\ \A f \in FeedInputs :
           (last.op = "wwr" /\ last.input = f.name)
           => \A d \in Days, n \in 1..Len(f.feeds) :
                  f.feeds[n].ok
                  => Range(FeedItems(f.feeds[n].items, d)) \subseteq Range(FetchedFeeds[f][d])

\* A key=value field of a query string as the pair of its decoded key and
\* value.
DecodedField(f) ==
    <<unquote(PlusToSpace(Before(f, "="))), unquote(PlusToSpace(After(f, "=")))>>

\* Whether the key of a field is outside the tracking blocklist.
KeptField(f) == Before(f, "=") \notin TrackingParams

\* The fields of the query string of a URL, in order.
QueryFields(url) == IF Contains(url, "?") THEN Split(After(url, "?"), "&") ELSE <<>>

\* The decoded fields, one by one.
Decoded(fields) == [i \in 1..Len(fields) |-> DecodedField(fields[i])]

\* Whether the host of a URL belongs to one of the job boards.
JobBoardHost(url) ==
    \/ Contains(urlparse(url).netloc, "linkedin.com")
    \/ Contains(urlparse(url).netloc, "indeed.com")

\* C14: for a URL whose host is no job board, the query of clean_job_url's
\* result is the input's fields whose key is not blocklisted, with their
\* values and in the input's order; when none is left the result has no query.
C14_StripKeepsOrder ==
    (Returned("clean_job_url") /\ call.args[1] # "" /\ ~JobBoardHost(call.args[1]))
    => /\ Decoded(QueryFields(call.ret[1]))
          = Decoded(SelectSeq(QueryFields(call.args[1]), KeptField))
       /\ SelectSeq(QueryFields(call.args[1]), KeptField) = <<>>
          => ~Contains(call.ret[1], "?")

\* The functions that parse one source.
Parsers == {"parse_linkedin_jobs", "parse_indeed_jobs", "fetch_wwr_jobs"}

\* C15: the records one call of a parser returns have pairwise different
\* URLs.
C15_ParserLocalDedup ==
    (call.fn \in Parsers /\ call.ret # None)
    => \A i, j \in 1..Len(call.ret[1]) :
           call.ret[1][i].url = call.ret[1][j].url => i = j

\* The outcomes of the generative call that are failures: it raises, or its
\* text holds no JSON object that can be parsed.
AnalysisFailures == {"raises", "no_json", "bad_json"}

\* C16: when the generative call fails, analyze_job returns the structure
\* with qualification score 0, should_apply false and the error annotated.
C16_AnalysisFailureContract ==
    (Returned("analyze_job") /\ call.args[1].kind \in AnalysisFailures)
    => /\ call.ret[1].qualification_score = Some(0)
       /\ call.ret[1].should_apply = "False"
       /\ call.ret[1].error

\* Whether a feed item is to be emitted on the given day: it has a title and
\* a link element and its publication date, if it has a readable one, is not
\* before the cutoff.
Eligible(item, today) ==
    /\ item.title.present
    /\ item.link.present
    /\ item.pubDate.kind \in {"naive", "aware"} => item.pubDate.day >= today - DaysBack

\* Company, title and URL of the record an item is to yield.
ExpectedRecord(item) ==
    <<Strip(Before(item.title.text, ":")), Strip(After(item.title.text, ":")),
      clean_job_url(item.link.text)>>

RECURSIVE ExpectedItems(_, _)
ExpectedItems(items, today) ==
    IF items = <<>> THEN <<>>
    ELSE (IF Eligible(Head(items), today) THEN <<ExpectedRecord(Head(items))>> ELSE <<>>)
         \o ExpectedItems(Tail(items), today)

RECURSIVE ExpectedFeeds(_, _)
ExpectedFeeds(feeds, today) ==
    IF feeds = <<>> THEN <<>>
    ELSE (IF Head(feeds).ok THEN ExpectedItems(Head(feeds).items, today) ELSE <<>>)
         \o ExpectedFeeds(Tail(feeds), today)

\* Company, title and URL of the records a parser returned.
Emitted(jobs) == [i \in 1..Len(jobs) |-> <<jobs[i].company, jobs[i].title, jobs[i].url>>]

\* C17: fetch_wwr_jobs returns one record for every item of the feeds it
\* could read that has a title and a link element and is not older than the
\* lookback window, with the company before the first colon of the title, the
\* title after it and the cleaned link, and no record for any other item.
C17_FeedParsing ==
    Returned("fetch_wwr_jobs")
    => Emitted(call.ret[1]) = ExpectedFeeds(call.args[1], call.args[2])

\* Whether worker w has left its handler.
Finished(w) == inflight[w].pc \in {"done", "failed"}

\* The ids for which both workers found no row in their existence check.
BothPassed == inflight[1].passed \cap inflight[2].passed

StatusDomain == {"new", "interested", "applied", "interviewing", "passed", "rejected"}

\* C19: every stored row has a status of the status domain, whatever
\* update_job was called with, and update_job for an id that no row has
\* creates no row.
C19_StatusDomain ==
    /\ \A r \in store : r.status \in StatusDomain
    /\ \A r \in store : r.job_id # "no such id"

\* C20: an analyze-all run neither selects a row that an earlier run has
\* analysed (its analysis column is set) nor changes the score, analysis or
\* status of such a row.
C20_AnalyzedOnce ==
    [][(Served({"analyze"}) /\ last'.http = 200)
        => \A r \in store :
               r.analysis # None
               => /\ r.job_id \notin last'.ids
                  /\ \E q \in store' : /\ q.job_id = r.job_id
                                       /\ q.score = r.score
                                       /\ q.analysis = r.analysis
                                       /\ q.status = r.status]_vars

\* The links of an email body that the parser called looks at.
MatchingLinks(fn, html) ==
    IF fn = "parse_linkedin_jobs" THEN SelectSeq(html, IsLinkedInJobLink)
    ELSE SelectSeq(html, IsIndeedJobLink)

\* C21: for every link of the email that the parser matches, whose title has
\* three or more characters and whose cleaned URL is not empty, the parser
\* returns a record for that URL, whatever links precede it.
C21_NoPostingLostToLinkOrder ==
    (call.fn \in {"parse_linkedin_jobs", "parse_indeed_jobs"} /\ call.ret # None)
    => \A i \in 1..Len(MatchingLinks(call.fn, call.args[1])) :
           (/\ Len(MatchingLinks(call.fn, call.args[1])[i].title) >= 3
            /\ clean_job_url(MatchingLinks(call.fn, call.args[1])[i].href) # "")
           => \E k \in 1..Len(call.ret[1]) :
                  call.ret[1][k].url
                  = clean_job_url(MatchingLinks(call.fn, call.args[1])[i].href)

\* C22: two stored rows with the same url, title and company are one row:
\* they have the same job id.
C22_IdentityOfStoredFields ==
    \A r1, r2 \in store :
        (r1.url = r2.url /\ r1.title = r2.title /\ r1.company = r2.company)
        => r1.job_id = r2.job_id

====
